---- MODULE Spec2Model ----
(***************************************************************************)
(* Context propagation core of nest-me-up/common: the ContextService       *)
(* (AsyncLocalStorage scopes), the ContextMiddleware (inbound), the        *)
(* HttpClientService (outbound) and the CronService (scheduled tasks).     *)
(*                                                                         *)
(* Values are strings.  A bag (ContextInfo), a header map and a storage    *)
(* map are functions from the set of keys that are set to their values;    *)
(* a key outside the DOMAIN is undefined in the JavaScript object.         *)
(***************************************************************************)
EXTENDS Integers, Sequences, FiniteSets, TLC

\* ---------------------------------------------------------------- bounds
\* deepest nesting of runWithContext scopes inside one task
MaxDepth == 2
\* calls of uuid.v4() in one behaviour
MaxUuid == 4
\* headers an inbound request carries
MaxHeaders == 2
\* calls of CronService.schedule in one behaviour
MaxJobs == 1
\* firings of scheduled tasks in one behaviour
MaxFirings == 2

\* ------------------------------------------------------------ value sets
\* the logically concurrent tasks (requests, timers) on the one worker
Tasks == {"t1", "t2"}
\* nobody holds the worker (every task is suspended or not started)
Idle == "idle"
\* AsyncLocalStorage.getStore() === undefined
NoStore == << >>

\* {} as T : the object with no field
EmptyBag == [f \in {} |-> ""]
\* contextStorage: {}
EmptyStorage == [k \in {} |-> ""]

\* well-typed ContextInfo values application code passes to runWithContext
\* and updateContextInfo (tenantId and transactionId are required fields)
BagA == [tenantId |-> "tenantA", transactionId |-> "transA"]
BagB == [tenantId |-> "tenantB", transactionId |-> "transB", userId |-> "userB"]
BagSet == {BagA, BagB}

StorageKeys == {"k1"}
StorageVals == {"v1", "v2"}

\* ------------------------------------------------------------- variables
VARIABLES
    scopes,      \* ContextData records alive: scope id -> [contextInfo, contextStorage]
    stack,       \* per task: the scope ids its continuation is nested in (innermost last)
    running,     \* the task holding the worker, or Idle
    expect,      \* per task: what the task itself has done to its scopes (history)
    lastWarn,    \* what the last step gave to logger.warn of the ContextService ("" if nothing)
    config,      \* configService.get('context.headerNames'), fixed at construction
    uuidCount,   \* calls of uuid.v4() so far
    arrival,     \* the inbound request being delivered: [req, res]
    inbound,     \* the last call of ContextMiddleware.use: its inputs, locals and effects
    jobs,        \* the tasks registered by CronService.schedule: the contextInfo each captured
    fired,       \* the last firing of a scheduled task: what its callback finds
    wire,        \* the outgoing call being made: [url, body, outcome]
    client,      \* the last instance returned by getHttpClient
    sent,        \* the last call made through client: what was sent and what came back
    emitted,     \* the last log emission: what the logger's mixin added to it
    caught       \* the last error that left a runWithContext: what its caller's handler finds

storeVars == <<scopes, stack, running, expect, lastWarn>>
inboundVars == <<arrival, inbound>>
cronVars == <<jobs, fired>>
httpVars == <<wire, client, sent>>
otherVars == <<emitted, caught>>
nonStoreVars == <<config, uuidCount, arrival, inbound, jobs, fired, wire, client, sent,
                  emitted, caught>>
vars == <<scopes, stack, running, expect, lastWarn, config, uuidCount, arrival, inbound,
          jobs, fired, wire, client, sent, emitted, caught>>

\* ------------------------------------------------------- ContextService
Top(s) == s[Len(s)]
Pop(s) == SubSeq(s, 1, Len(s) - 1)

\* a process-wide "current record" instead of continuation-local storage
getStoreShared(t) ==
    IF DOMAIN scopes = {} THEN NoStore
    ELSE CHOOSE s \in DOMAIN scopes : TRUE

\* asyncLocalStorage.getStore() evaluated in the continuation of task t
getStore(t) ==
    IF stack[t] = << >> THEN NoStore ELSE Top(stack[t])

\* what the caller gets when a call raises a TypeError
Raised == [error |-> "TypeError"]

\* getStore().contextInfo, with neither ?. nor ?? {}
getContextUnguarded(t) ==
    IF getStore(t) = NoStore THEN Raised ELSE scopes[getStore(t)].contextInfo

\* getContext(): getStore()?.contextInfo ?? {}
getContext(t) ==
    IF getStore(t) = NoStore THEN EmptyBag ELSE scopes[getStore(t)].contextInfo

\* getContextStorageData(dataName): currentContext?.contextStorage?.[dataName]
\* (the result is <<v>> for a value v and << >> for undefined)
getContextStorageData(t, dataName) ==
    IF getStore(t) = NoStore THEN << >>
    ELSE IF dataName \in DOMAIN scopes[getStore(t)].contextStorage
         THEN << scopes[getStore(t)].contextStorage[dataName] >>
         ELSE << >>

\* const newContext = { contextInfo, contextStorage: {} }
newContext(contextInfo) ==
    [contextInfo |-> contextInfo, contextStorage |-> EmptyStorage]

\* the identity of the record made by the next runWithContext of task t
NewId(t) == <<t, Len(stack[t]) + 1>>

\* f with key k set to v
Put(f, k, v) == [x \in DOMAIN f \cup {k} |-> IF x = k THEN v ELSE f[x]]
\* f without key k
Drop(f, k) == [x \in DOMAIN f \ {k} |-> f[x]]

\* asyncLocalStorage.run(newContext, callback): the callback starts, in the
\* continuation of task t, with newContext as its store
EnterScope(t, contextInfo) ==
    /\ Len(stack[t]) < MaxDepth
    /\ scopes' = Put(scopes, NewId(t), newContext(contextInfo))
    /\ stack' = [stack EXCEPT ![t] = Append(@, NewId(t))]
    /\ expect' = [expect EXCEPT ![t] = Append(@, newContext(contextInfo))]

\* the store the continuation of t has once the callback of run() is over
exitStoreKeep(s) == s
exitStore(s) == Pop(s)

\* runWithContext(contextInfo, callback), up to the start of callback
RunWithContext(t, contextInfo) ==
    /\ running = t
    /\ EnterScope(t, contextInfo)
    /\ lastWarn' = ""
    /\ UNCHANGED <<running, nonStoreVars>>

\* the callback of run() is over (returned or threw): the record is unreachable
Return(t) ==
    /\ running = t
    /\ stack[t] # << >>
    /\ stack' = [stack EXCEPT ![t] = exitStore(@)]
    /\ scopes' = IF Top(stack[t]) \in { stack'[t][i] : i \in 1..Len(stack'[t]) }
                 THEN scopes ELSE Drop(scopes, Top(stack[t]))
    /\ expect' = [expect EXCEPT ![t] = Pop(@)]
    /\ lastWarn' = ""
    /\ UNCHANGED <<running, nonStoreVars>>

\* an updateContextInfo that replaces the bag of every scope the task is in
UpdateContextInfoAll(t, contextInfo) ==
    /\ running = t
    /\ IF getStore(t) # NoStore
       THEN /\ scopes' = [s \in DOMAIN scopes |->
                            IF s \in { stack[t][i] : i \in 1..Len(stack[t]) }
                            THEN [scopes[s] EXCEPT !.contextInfo = contextInfo]
                            ELSE scopes[s]]
            /\ lastWarn' = ""
       ELSE /\ lastWarn' = "ContextInfo is not available"
            /\ UNCHANGED scopes
    /\ expect' = IF expect[t] # << >>
                 THEN [expect EXCEPT ![t][Len(expect[t])].contextInfo = contextInfo]
                 ELSE expect
    /\ UNCHANGED <<stack, running, nonStoreVars>>

\* an updateContextInfo that opens a scope when there is none
UpdateContextInfoOpens(t, contextInfo) ==
    /\ running = t
    /\ IF getStore(t) # NoStore
       THEN /\ scopes' = [scopes EXCEPT ![getStore(t)].contextInfo = contextInfo]
            /\ expect' = [expect EXCEPT ![t][Len(expect[t])].contextInfo = contextInfo]
            /\ UNCHANGED stack
       ELSE EnterScope(t, contextInfo)
    /\ lastWarn' = ""
    /\ UNCHANGED <<running, nonStoreVars>>

\* updateContextInfo(contextInfo)
UpdateContextInfo(t, contextInfo) ==
    /\ running = t
    /\ IF getStore(t) # NoStore
       THEN /\ scopes' = [scopes EXCEPT ![getStore(t)].contextInfo = contextInfo]
            /\ lastWarn' = ""
       ELSE /\ lastWarn' = "ContextInfo is not available"
            /\ UNCHANGED scopes
    /\ expect' = IF expect[t] # << >>
                 THEN [expect EXCEPT ![t][Len(expect[t])].contextInfo = contextInfo]
                 ELSE expect
    /\ UNCHANGED <<stack, running, nonStoreVars>>

\* an updateContextStorageData that writes to the outermost scope of the task
UpdateContextStorageDataOuter(t, dataName, data) ==
    /\ running = t
    /\ IF getStore(t) # NoStore
       THEN /\ scopes' = [scopes EXCEPT ![stack[t][1]].contextStorage = Put(@, dataName, data)]
            /\ lastWarn' = ""
       ELSE /\ lastWarn' = "ContextStorage is not available"
            /\ UNCHANGED scopes
    /\ expect' = IF expect[t] # << >>
                 THEN [expect EXCEPT ![t][Len(expect[t])].contextStorage = Put(@, dataName, data)]
                 ELSE expect
    /\ UNCHANGED <<stack, running, nonStoreVars>>

\* updateContextStorageData(dataName, data)
UpdateContextStorageData(t, dataName, data) ==
    /\ running = t
    /\ IF getStore(t) # NoStore
       THEN /\ scopes' = [scopes EXCEPT ![getStore(t)].contextStorage = Put(@, dataName, data)]
            /\ lastWarn' = ""
       ELSE /\ lastWarn' = "ContextStorage is not available"
            /\ UNCHANGED scopes
    /\ expect' = IF expect[t] # << >>
                 THEN [expect EXCEPT ![t][Len(expect[t])].contextStorage = Put(@, dataName, data)]
                 ELSE expect
    /\ UNCHANGED <<stack, running, nonStoreVars>>

\* a suspension point (await): the task gives up the worker
Suspend(t) ==
    /\ running = t
    /\ running' = Idle
    /\ lastWarn' = ""
    /\ UNCHANGED <<scopes, stack, expect, nonStoreVars>>

\* the event loop starts or resumes a task
Resume(t) ==
    /\ running = Idle
    /\ running' = t
    /\ lastWarn' = ""
    /\ UNCHANGED <<scopes, stack, expect, nonStoreVars>>


\* ------------------------------------------------------ header-name tables
\* context-middleware.ts: DEFAULT_HEADER_NAMES
MiddlewareDefaultHeaderNames ==
    [transactionId |-> "x-transaction-id", sessionId |-> "x-session-id",
     userId |-> "x-user-id", tenantId |-> "x-tenant-id", projectId |-> "x-project-id"]

\* a default table with a sixth entry, for internalTransactionId
DefaultHeaderNamesSix ==
    [transactionId |-> "x-transaction-id", sessionId |-> "x-session-id",
     userId |-> "x-user-id", tenantId |-> "x-tenant-id", projectId |-> "x-project-id",
     internalTransactionId |-> "x-internal-transaction-id"]

\* http-headers.config: DEFAULT_HEADER_NAMES
DEFAULT_HEADER_NAMES ==
    [transactionId |-> "x-transaction-id", sessionId |-> "x-session-id",
     userId |-> "x-user-id", tenantId |-> "x-tenant-id", projectId |-> "x-project-id"]

\* { ...b, ...a }
SpreadFirstWins(a, b) == [k \in DOMAIN a \cup DOMAIN b |-> IF k \in DOMAIN a THEN a[k] ELSE b[k]]

\* { ...a, ...b }
Spread(a, b) == [k \in DOMAIN a \cup DOMAIN b |-> IF k \in DOMAIN b THEN b[k] ELSE a[k]]

\* values of context.headerNames: not configured; the README's example; the
\* configuration of the middleware's test; a header for internalTransactionId
NoConfig == [k \in {} |-> ""]
ConfigReadme == [transactionId |-> "x-trace-id", customProperty |-> "x-custom-header"]
ConfigTest ==
    [tenantId |-> "x-tenant-id", userId |-> "x-user-id", transactionId |-> "x-transaction-id",
     projectId |-> "x-project-id", sessionId |-> "x-session-id", other |-> "x-other-id"]
ConfigInternal == [internalTransactionId |-> "x-internal-transaction-id"]
ConfigSet == {NoConfig, ConfigReadme, ConfigTest, ConfigInternal}

\* a constructor that does not read context.headerNames
MiddlewareTableDefaults == MiddlewareDefaultHeaderNames

\* ContextMiddleware constructor: this.contextKeyToHeaderName
MiddlewareTable == Spread(MiddlewareDefaultHeaderNames, config)

\* the header names a request can carry
HeaderNames ==
    {"x-transaction-id", "x-session-id", "x-user-id", "x-tenant-id", "x-project-id",
     "x-trace-id", "x-custom-header", "x-other-id", "x-internal-transaction-id"}

\* the non-empty value a client sends in header h
HeaderValue(h) == "v:" \o h

\* req.headers of the inbound requests: at most MaxHeaders headers, each with
\* an empty value or its non-empty value
Requests ==
    UNION { { [h \in hs |-> IF h \in es THEN "" ELSE HeaderValue(h)] : es \in SUBSET hs } :
            hs \in { x \in SUBSET HeaderNames : Cardinality(x) <= MaxHeaders } }

\* the response objects: header() works; there is no header function (the
\* test's {}); header() raises
Responses == {"header", "noHeaderFunction", "headerRaises"}

\* uuid.v4(): the n-th identifier generated
v4(n) == "uuid-" \o ToString(n)

\* a field that is set to undefined, to null
UndefinedValue == "<undefined>"
NullValue == "<null>"

\* JavaScript truthiness of obj[key]: set, and not '', undefined or null
Truthy(obj, key) == key \in DOMAIN obj /\ obj[key] \notin {"", UndefinedValue, NullValue}

\* v4() whatever the header holds
alwaysGenerate(headers, name, n) == v4(n)

\* (req?.headers[name] as string) || v4(), with n the next identifier v4() gives
extractOrGenerate(headers, name, n) ==
    IF Truthy(headers, name) THEN headers[name] ELSE v4(n)

\* createContextInfo copying every header that is set, also an empty one
createContextInfoIfSet(table, headers, transactionId, sessionId, internalTransactionId) ==
    LET base == [transactionId |-> transactionId, sessionId |-> sessionId,
                 internalTransactionId |-> internalTransactionId]
        found == { key \in DOMAIN table : table[key] \in DOMAIN headers }
    IN  [key \in DOMAIN base \cup found |->
            IF key \in found THEN headers[table[key]] ELSE base[key]]

\* ContextMiddleware.createContextInfo
createContextInfo(table, headers, transactionId, sessionId, internalTransactionId) ==
    LET base == [transactionId |-> transactionId, sessionId |-> sessionId,
                 internalTransactionId |-> internalTransactionId]
        found == { key \in DOMAIN table : Truthy(headers, table[key]) }
    IN  [key \in DOMAIN base \cup found |->
            IF key \in found THEN headers[table[key]] ELSE base[key]]

\* the try block of use() without its catch: what _res.header raises leaves use()
writeHeadersUncaught(req, res, tHeader, sHeader, transactionId, sessionId) ==
    [headers |-> IF res = "headerRaises"
                 THEN Put(req, tHeader, transactionId)
                 ELSE Put(Put(req, tHeader, transactionId), sHeader, sessionId),
     resHeaders |-> IF res = "header"
                    THEN Put(Put(NoConfig, tHeader, transactionId), sHeader, sessionId)
                    ELSE NoConfig,
     logged |-> FALSE,
     thrown |-> res = "headerRaises"]

\* try { req.headers[..] = ..; _res.header(..) ... } catch (error) { this.logger.error(error) }:
\* req.headers and the response's headers afterwards, whether the catch
\* logged, whether an error leaves the statement
writeHeaders(req, res, tHeader, sHeader, transactionId, sessionId) ==
    [headers |-> IF res = "headerRaises"
                 THEN Put(req, tHeader, transactionId)
                 ELSE Put(Put(req, tHeader, transactionId), sHeader, sessionId),
     resHeaders |-> IF res = "header"
                    THEN Put(Put(NoConfig, tHeader, transactionId), sHeader, sessionId)
                    ELSE NoConfig,
     logged |-> res = "headerRaises",
     thrown |-> FALSE]

\* no call of use() yet
NoInbound == [called |-> FALSE]

\* ContextMiddleware.use(req, _res, next) in task t, for the request being
\* delivered, up to the start of next() (or, were an error to leave the try
\* statement, up to where it leaves use())
Use(t) ==
    /\ running = t
    /\ uuidCount + 3 <= MaxUuid
    /\ LET req == arrival.req
           res == arrival.res
           table == MiddlewareTable
           tHeader == table["transactionId"]
           sHeader == table["sessionId"]
           genT == ~Truthy(req, tHeader)
           transactionId == extractOrGenerate(req, tHeader, uuidCount + 1)
           n1 == IF genT THEN uuidCount + 1 ELSE uuidCount
           genS == ~Truthy(req, sHeader)
           sessionId == extractOrGenerate(req, sHeader, n1 + 1)
           n2 == IF genS THEN n1 + 1 ELSE n1
           w == writeHeaders(req, res, tHeader, sHeader, transactionId, sessionId)
           headers2 == w.headers
           written == w.resHeaders
           internalTransactionId == v4(n2 + 1)
           contextInfo == createContextInfo(table, headers2, transactionId, sessionId,
                                            internalTransactionId)
       IN  /\ IF w.thrown
              THEN UNCHANGED <<scopes, stack, expect>>
              ELSE EnterScope(t, contextInfo)
           /\ uuidCount' = IF w.thrown THEN n2 ELSE n2 + 1
           /\ inbound' = [called |-> TRUE, task |-> t, req |-> req, res |-> res,
                          headers |-> headers2, resHeaders |-> written,
                          transactionId |-> transactionId, sessionId |-> sessionId,
                          internalTransactionId |-> internalTransactionId,
                          generated |-> { v4(i) : i \in (uuidCount + 1)..(n2 + 1) },
                          logged |-> w.logged,
                          contextInfo |-> contextInfo,
                          raised |-> w.thrown,
                          nextCalls |-> IF w.thrown THEN 0 ELSE 1,
                          nextStore |-> IF w.thrown THEN NoStore ELSE NewId(t),
                          arrival |-> arrival,
                          seen |-> IF w.thrown THEN EmptyBag ELSE getContext(t)']
    /\ lastWarn' = ""
    /\ UNCHANGED <<running, config, arrival, cronVars, httpVars, otherVars>>

\* ------------------------------------------------------------ CronService
\* the value undefined where an object is expected
Undefined == [undefined |-> "undefined"]

\* !obj for an object or undefined: every object, also {}, is truthy
Not(obj) == obj = Undefined

\* the placeholder bag of schedule(), with n the next identifier v4() gives
PlaceholderBag(n) ==
    [tenantId |-> "unknown", transactionId |-> v4(n), internalTransactionId |-> v4(n + 1),
     projectId |-> "unknown", sessionId |-> "unknown"]

\* no firing yet
NoFiring == [called |-> FALSE]

\* CronService.schedule(expression, callback, options) called by task t
Schedule(t) ==
    /\ running = t
    /\ Len(jobs) < MaxJobs
    /\ LET ambient == getContext(t)
           placeholder == Not(ambient)
       IN  /\ placeholder => uuidCount + 2 <= MaxUuid
           /\ jobs' = Append(jobs,
                   [contextInfo |-> IF placeholder THEN PlaceholderBag(uuidCount + 1)
                                    ELSE ambient,
                    inScope |-> expect[t] # << >>])
           /\ uuidCount' = IF placeholder THEN uuidCount + 2 ELSE uuidCount
    /\ lastWarn' = ""
    /\ UNCHANGED <<scopes, stack, running, expect, config, inboundVars, fired, httpVars,
                   otherVars>>

\* the firings so far
firings == IF fired.called THEN fired.count ELSE 0

\* a wrapper that calls the callback in the scope that is ambient at firing
\* time when there is one
FireInAmbient(t, j) ==
    /\ running = t
    /\ j \in 1..Len(jobs)
    /\ firings < MaxFirings
    /\ IF stack[t] = << >> THEN EnterScope(t, jobs[j].contextInfo)
       ELSE UNCHANGED <<scopes, stack, expect>>
    /\ fired' = [called |-> TRUE, job |-> j, task |-> t, count |-> firings + 1,
                 ambient |-> getContext(t),
                 ambientStorage |-> [k \in StorageKeys |-> getContextStorageData(t, k)],
                 seen |-> getContext(t)',
                 storage |-> [k \in StorageKeys |-> getContextStorageData(t, k)']]
    /\ lastWarn' = ""
    /\ UNCHANGED <<running, config, uuidCount, inboundVars, jobs, httpVars, otherVars>>

\* node-cron fires job j in the continuation of task t: the wrapper calls
\* runWithContext(contextInfo, callback), up to the start of callback
Fire(t, j) ==
    /\ running = t
    /\ j \in 1..Len(jobs)
    /\ firings < MaxFirings
    /\ EnterScope(t, jobs[j].contextInfo)
    /\ fired' = [called |-> TRUE, job |-> j, task |-> t, count |-> firings + 1,
                 ambient |-> getContext(t),
                 ambientStorage |-> [k \in StorageKeys |-> getContextStorageData(t, k)],
                 seen |-> getContext(t)',
                 storage |-> [k \in StorageKeys |-> getContextStorageData(t, k)']]
    /\ lastWarn' = ""
    /\ UNCHANGED <<running, config, uuidCount, inboundVars, jobs, httpVars, otherVars>>

\* ------------------------------------------------------ HttpClientService
\* HttpStatus.BAD_REQUEST
BAD_REQUEST == 400
\* errors.const: the HTTP status of a business-domain failure (the code only
\* tests a response status for equality with it, before any other test)
DOMAIN_CUSTOM_HTTP_ERROR_CODE == 422

\* getContextHeaderNames(configService): this.contextKeyToHeaderName
HttpTable == Spread(DEFAULT_HEADER_NAMES, config)

\* the contextInfo option of getHttpClient: omitted, or a bag (the tests pass
\* { transactionId: 'x' } as ContextInfo and a bag with internalTransactionId;
\* an optional string field can also be '')
BagX == [transactionId |-> "x"]
BagTest == [tenantId |-> "tenant", transactionId |-> "trans",
            internalTransactionId |-> "internal", projectId |-> "project"]
BagEmptyUser == [tenantId |-> "2", transactionId |-> "123456", userId |-> ""]
ContextInfoOptions == {Undefined, BagX, BagTest, BagEmptyUser}

\* the request body of the outgoing call
Bodies == {"secret"}
\* config.data of the sanitized error
REDACTED == "<REDACTED>"

\* error.config.url: absolute; relative to the baseUrl option; missing
Urls == {"absolute", "relative", "missing"}

\* how the transport ends the call, after its retries: a 2xx response, a
\* failure with a response (its status; hasData: response.data is neither
\* undefined nor null, which for the domain code is also modelled otherwise),
\* a failure without response
Statuses == {BAD_REQUEST, 404, DOMAIN_CUSTOM_HTTP_ERROR_CODE, 500}
Outcomes ==
    {[ok |-> TRUE, response |-> TRUE, status |-> 200, hasData |-> TRUE]} \cup
    {[ok |-> FALSE, response |-> TRUE, status |-> st, hasData |-> TRUE] : st \in Statuses} \cup
    {[ok |-> FALSE, response |-> TRUE, status |-> DOMAIN_CUSTOM_HTTP_ERROR_CODE,
      hasData |-> FALSE]} \cup
    {[ok |-> FALSE, response |-> FALSE, status |-> 0, hasData |-> FALSE]}

Wires == [url : Urls, body : Bodies, outcome : Outcomes]

\* a request interceptor that names each header by the field's key
requestInterceptorByKey(table, resolvedContextInfo) ==
    [key \in { k \in DOMAIN table : Truthy(resolvedContextInfo, k) } |->
        resolvedContextInfo[key]]

\* a request interceptor that sets a header for every field that is set, also ''
requestInterceptorIfSet(table, resolvedContextInfo) ==
    LET set == { key \in DOMAIN table : key \in DOMAIN resolvedContextInfo }
    IN  [h \in { table[key] : key \in set } |->
            resolvedContextInfo[CHOOSE key \in set : table[key] = h]]

\* the order of Object.entries(table): the keys of the default table in its
\* order, then the keys that only the configuration has
EntriesOrder ==
    <<"transactionId", "sessionId", "userId", "tenantId", "projectId",
      "internalTransactionId", "customProperty", "other">>
Position(key) == CHOOSE i \in 1..Len(EntriesOrder) : EntriesOrder[i] = key

\* the request interceptor: the context headers it sets on config.headers (of
\* two fields with one header name the later entry's value stays)
requestInterceptor(table, resolvedContextInfo) ==
    LET set == { key \in DOMAIN table : Truthy(resolvedContextInfo, key) }
        last(h) == CHOOSE key \in set :
                      /\ table[key] = h
                      /\ \A other \in set : table[other] = h => Position(other) <= Position(key)
    IN  [h \in { table[key] : key \in set } |-> resolvedContextInfo[last(h)]]

\* new URL(error.config?.url || '') raises a TypeError
UrlRaises(url) == url # "absolute"

\* the logger call of handleAxiosError, when it gets that far
errorLog(outcome) ==
    IF outcome.response /\ outcome.status = DOMAIN_CUSTOM_HTTP_ERROR_CODE
    THEN [level |-> "info", class |-> "domain error"]
    ELSE IF outcome.response /\ outcome.status # 0 /\ outcome.status <= BAD_REQUEST
    THEN [level |-> "info", class |-> "bad request"]
    ELSE [level |-> "warn", class |-> "unknown error"]

\* the AxiosError the transport rejects with (config.data is the request body)
AxiosError(w) ==
    [kind |-> "AxiosError", configData |-> <<w.body>>,
     status |-> << >>,
     response |-> IF w.outcome.response THEN <<w.outcome.status>> ELSE << >>]

\* an error handler that returns the sanitized error (the promise resolves)
handleAxiosErrorReturned(w) ==
    [log |-> <<errorLog(w.outcome)>>,
     settles |-> "resolved",
     rejected |-> [kind |-> "sanitizedError", configData |-> <<REDACTED>>,
                   status |-> <<w.outcome.status>>,
                   response |-> <<w.outcome.status>>]]

\* handleAxiosError(error): what is logged, how the promise it returns (or the
\* error it raises) settles the call, and with what
handleAxiosError(w) ==
    IF UrlRaises(w.url)
    THEN [log |-> << >>, settles |-> "rejected", rejected |-> [kind |-> "TypeError"]]
    ELSE IF /\ w.outcome.response
            /\ w.outcome.status = DOMAIN_CUSTOM_HTTP_ERROR_CODE
            /\ ~w.outcome.hasData
    THEN \* domainCustomException.message of undefined
         [log |-> << >>, settles |-> "rejected", rejected |-> [kind |-> "TypeError"]]
    ELSE [log |-> <<errorLog(w.outcome)>>,
          settles |-> "rejected",
          rejected |->
             IF w.outcome.response
             THEN [kind |-> "sanitizedError", configData |-> <<REDACTED>>,
                   status |-> <<w.outcome.status>>,
                   response |-> <<w.outcome.status>>]
             ELSE AxiosError(w)]

\* a call to an absolute URL that gets a 2xx response
WireOk == [url |-> "absolute", body |-> "secret",
           outcome |-> [ok |-> TRUE, response |-> TRUE, status |-> 200, hasData |-> TRUE]]

\* no instance yet, no call yet
NoClient == [created |-> FALSE]
NoCall == [called |-> FALSE]

\* the interServiceCommunication option of getHttpClient
InterServiceOptions == {"omitted", "true", "false"}

\* a parameter default of false
defaultDisabled(option) == option = "true"

\* interServiceCommunication = true: the default applies when the option is omitted
interServiceDefault(option) == option # "false"

\* the explicit bag laid over the ambient one
resolveMerged(contextInfo, ambient) ==
    IF Not(contextInfo) THEN ambient ELSE Spread(ambient, contextInfo)

\* contextInfo || this.contextService.getContext()
resolve(contextInfo, ambient) ==
    IF Not(contextInfo) THEN ambient ELSE contextInfo

\* getHttpClient({ contextInfo, interServiceCommunication }) called by task t
GetHttpClient(t, contextInfo, interServiceCommunication) ==
    /\ running = t
    /\ client' = [created |-> TRUE,
                  option |-> interServiceCommunication,
                  interServiceCommunication |-> interServiceDefault(interServiceCommunication),
                  explicit |-> ~Not(contextInfo),
                  contextInfo |-> contextInfo,
                  resolvedContextInfo |->
                      IF interServiceDefault(interServiceCommunication)
                      THEN resolve(contextInfo, getContext(t))
                      ELSE Undefined,
                  \* calls of contextService.getContext()
                  storeReads |->
                      IF interServiceDefault(interServiceCommunication) /\ Not(contextInfo)
                      THEN 1 ELSE 0]
    /\ lastWarn' = ""
    /\ UNCHANGED <<scopes, stack, running, expect, config, uuidCount, inboundVars,
                   cronVars, wire, sent, otherVars>>

\* task t makes the call on the wire through client: the request interceptor,
\* the transport, the response interceptor
Send(t) ==
    /\ running = t
    /\ client.created
    /\ LET headers == IF client.interServiceCommunication
                      THEN requestInterceptor(HttpTable, client.resolvedContextInfo)
                      ELSE NoConfig
           handled == handleAxiosError(wire)
       IN  sent' = [called |-> TRUE, task |-> t,
                    interServiceCommunication |-> client.interServiceCommunication,
                    explicit |-> client.explicit,
                    option |-> client.option,
                    contextInfo |-> client.contextInfo,
                    resolved |-> client.resolvedContextInfo,
                    storeReads |-> client.storeReads,
                    ambient |-> getContext(t),
                    headers |-> headers,
                    log |-> IF ~wire.outcome.ok /\ client.interServiceCommunication
                            THEN handled.log ELSE << >>,
                    settled |->
                        IF wire.outcome.ok THEN "resolved"
                        ELSE IF client.interServiceCommunication
                        THEN handled.settles
                        ELSE "rejected",
                    delivered |->
                        IF wire.outcome.ok
                        THEN [kind |-> "response", status |-> <<wire.outcome.status>>]
                        ELSE IF client.interServiceCommunication
                        THEN handled.rejected
                        ELSE AxiosError(wire)]
    /\ lastWarn' = ""
    /\ UNCHANGED <<scopes, stack, running, expect, config, uuidCount, inboundVars,
                   cronVars, wire, client, otherVars>>

\* ----------------------------------------------------------- LoggerModule
\* string.charAt(0) and string.slice(1) of the field names
charAt0(string) ==
    [tenantId |-> "t", transactionId |-> "t", userId |-> "u", projectId |-> "p",
     sessionId |-> "s", internalTransactionId |-> "i", other |-> "o",
     customProperty |-> "c"][string]
slice1(string) ==
    [tenantId |-> "enantId", transactionId |-> "ransactionId", userId |-> "serId",
     projectId |-> "rojectId", sessionId |-> "essionId",
     internalTransactionId |-> "nternalTransactionId", other |-> "ther",
     customProperty |-> "ustomProperty"][string]

\* char.toUpperCase()
toUpperCase(char) ==
    [t |-> "T", u |-> "U", p |-> "P", s |-> "S", i |-> "I", o |-> "O", c |-> "C"][char]

\* capitalizeFirstLetter(string)
capitalizeFirstLetter(string) == toUpperCase(charAt0(string)) \o slice1(string)

\* log parameters for the truthy fields only
createLogParametersTruthy(contextInfo) ==
    LET kept == { key \in DOMAIN contextInfo : Truthy(contextInfo, key) }
    IN  [name \in { "context" \o capitalizeFirstLetter(key) : key \in kept } |->
            contextInfo[CHOOSE key \in kept : "context" \o capitalizeFirstLetter(key) = name]]

\* createLogParametersFromContext(contextInfo)
createLogParametersFromContext(contextInfo) ==
    LET kept == { key \in DOMAIN contextInfo :
                    contextInfo[key] # UndefinedValue /\ contextInfo[key] # NullValue }
    IN  [name \in { "context" \o capitalizeFirstLetter(key) : key \in kept } |->
            contextInfo[CHOOSE key \in kept : "context" \o capitalizeFirstLetter(key) = name]]

\* pinoHttp.mixin() evaluated in the continuation of task t
mixin(t) ==
    IF ~Not(getContext(t))
    THEN createLogParametersFromContext(getContext(t))
    ELSE EmptyBag

\* the bags of the code that logs: with a field set to undefined, to null, to ''
BagNulls == [tenantId |-> "tenantN", transactionId |-> "transN",
             projectId |-> UndefinedValue, userId |-> NullValue, sessionId |-> ""]
LogBags == {BagB, BagTest, BagNulls}

\* no log emission yet
NoEmission == [called |-> FALSE]

\* task t emits a log line: pino calls mixin() and merges what it returns
Log(t) ==
    /\ running = t
    /\ emitted' = [called |-> TRUE, task |-> t,
                   inScope |-> expect[t] # << >>,
                   ambient |-> getContext(t),
                   metadata |-> mixin(t),
                   raised |-> FALSE]
    /\ lastWarn' = ""
    /\ UNCHANGED <<scopes, stack, running, expect, config, uuidCount, inboundVars,
                   cronVars, httpVars, caught>>

\* ------------------------------------------------- errors in a callback
\* no error yet
NoError == [called |-> FALSE]

\* what a callback raises
Errors == {"e1", "e2"}

\* a runWithContext whose caller handles the error while the scope that
\* failed is still the ambient one
ThrowInScope(t, e) ==
    /\ running = t
    /\ stack[t] # << >>
    /\ caught' = [called |-> TRUE, task |-> t, raised |-> e, error |-> e,
                  failed |-> getContext(t), seen |-> getContext(t)]
    /\ lastWarn' = ""
    /\ UNCHANGED <<scopes, stack, expect, running, config, uuidCount, inboundVars,
                   cronVars, httpVars, emitted>>

\* the callback of runWithContext raises e: run() leaves the scope,
\* runWithContext has no handler of its own, and the handler of its caller
\* gets the error and calls getContext()
Throw(t, e) ==
    /\ running = t
    /\ stack[t] # << >>
    /\ stack' = [stack EXCEPT ![t] = exitStore(@)]
    /\ scopes' = IF Top(stack[t]) \in { stack'[t][i] : i \in 1..Len(stack'[t]) }
                 THEN scopes ELSE Drop(scopes, Top(stack[t]))
    /\ expect' = [expect EXCEPT ![t] = Pop(@)]
    /\ caught' = [called |-> TRUE, task |-> t, raised |-> e, error |-> e,
                  failed |-> getContext(t), seen |-> getContext(t)']
    /\ lastWarn' = ""
    /\ UNCHANGED <<running, config, uuidCount, inboundVars, cronVars, httpVars,
                   emitted>>

\* ------------------------------------------------------------------ spec
\* after construction of the services, with context.headerNames = headerNames
\* and the request arr on its way in, the call w on its way out
InitWith(headerNames, arr, w) ==
    /\ scopes = [s \in {} |-> newContext(EmptyBag)]
    /\ stack = [t \in Tasks |-> << >>]
    /\ running = Idle
    /\ expect = [t \in Tasks |-> << >>]
    /\ lastWarn = ""
    /\ config = headerNames
    /\ uuidCount = 0
    /\ arrival = arr
    /\ inbound = NoInbound
    /\ jobs = << >>
    /\ fired = NoFiring
    /\ wire = w
    /\ client = NoClient
    /\ sent = NoCall
    /\ emitted = NoEmission
    /\ caught = NoError

\* the ContextService alone, context.headerNames not configured
InitStore == InitWith(NoConfig, [req |-> NoConfig, res |-> "header"], WireOk)

NextStore ==
    \E t \in Tasks :
        \/ Resume(t)
        \/ Suspend(t)
        \/ \E b \in BagSet : RunWithContext(t, b)
        \/ Return(t)
        \/ \E b \in BagSet : UpdateContextInfo(t, b)
        \/ \E k \in StorageKeys, v \in StorageVals : UpdateContextStorageData(t, k, v)

SpecStore == InitStore /\ [][NextStore]_vars

\* the ContextService with callbacks that return and callbacks that raise
NextErrors ==
    \E t \in Tasks :
        \/ Resume(t)
        \/ Suspend(t)
        \/ \E b \in BagSet : RunWithContext(t, b)
        \/ Return(t)
        \/ \E b \in BagSet : UpdateContextInfo(t, b)
        \/ \E e \in Errors : Throw(t, e)

SpecErrors == InitStore /\ [][NextErrors]_vars

\* the Inbound Boundary Processor: every configuration of ConfigSet, every
\* request of Requests with every response object, delivered one or more times
InitInbound ==
    \E headerNames \in ConfigSet, req \in Requests, res \in Responses :
        InitWith(headerNames, [req |-> req, res |-> res], WireOk)

NextInbound ==
    \E t \in Tasks :
        \/ Resume(t)
        \/ Suspend(t)
        \/ Use(t)
        \/ Return(t)

SpecInbound == InitInbound /\ [][NextInbound]_vars

\* the scheduled-task wrapper with the ContextService operations of the code
\* that registers the tasks and of the callbacks
NextCron ==
    \E t \in Tasks :
        \/ Resume(t)
        \/ Suspend(t)
        \/ \E b \in BagSet : RunWithContext(t, b)
        \/ Return(t)
        \/ \E b \in BagSet : UpdateContextInfo(t, b)
        \/ Schedule(t)
        \/ \E j \in 1..MaxJobs : Fire(t, j)

SpecCron == InitStore /\ [][NextCron]_vars

\* the firings of the scheduled tasks of one task, whose callbacks and whose
\* registering code replace bags and write storage
NextFirings ==
    \E t \in {"t1"} :
        \/ Resume(t)
        \/ Suspend(t)
        \/ \E b \in BagSet : RunWithContext(t, b)
        \/ Return(t)
        \/ \E b \in BagSet : UpdateContextInfo(t, b)
        \/ \E k \in StorageKeys, v \in StorageVals : UpdateContextStorageData(t, k, v)
        \/ Schedule(t)
        \/ \E j \in 1..MaxJobs : Fire(t, j)

SpecFirings == InitStore /\ [][NextFirings]_vars

\* the logger's mixin with the ContextService operations of the code that logs
NextLogger ==
    \E t \in Tasks :
        \/ Resume(t)
        \/ Suspend(t)
        \/ \E b \in LogBags : RunWithContext(t, b)
        \/ Return(t)
        \/ \E b \in LogBags : UpdateContextInfo(t, b)
        \/ Log(t)

SpecLogger == InitStore /\ [][NextLogger]_vars

\* the task that obtains the instances and makes the calls
Callers == {"t1"}

\* the Outbound Propagator with the ContextService operations of its caller:
\* every call of Wires, made one or more times through the instances that
\* getHttpClient returns
InitOutbound ==
    \/ \E headerNames \in ConfigSet :
          InitWith(headerNames, [req |-> NoConfig, res |-> "header"], WireOk)
    \/ \E w \in Wires :
          InitWith(NoConfig, [req |-> NoConfig, res |-> "header"], w)

NextOutbound ==
    \E t \in Callers :
        \/ Resume(t)
        \/ Suspend(t)
        \/ \E b \in BagSet : RunWithContext(t, b)
        \/ Return(t)
        \/ \E b \in BagSet : UpdateContextInfo(t, b)
        \/ \E contextInfo \in ContextInfoOptions,
                 interServiceCommunication \in InterServiceOptions :
              GetHttpClient(t, contextInfo, interServiceCommunication)
        \/ Send(t)

SpecOutbound == InitOutbound /\ [][NextOutbound]_vars

\* the bags a service forwards on a hop
BagOther == [tenantId |-> "tenantO", transactionId |-> "transO", sessionId |-> "sessO",
             userId |-> "userO", projectId |-> "projectO", other |-> "otherO",
             customProperty |-> "customO"]
HopBags == {BagB, BagTest, BagEmptyUser, BagOther}

\* a configuration that gives userId the header name of tenantId
ConfigCollide == [userId |-> "x-tenant-id"]
HopConfigs == ConfigSet \cup {ConfigCollide}

\* the service that receives the calls
Receivers == {"t2"}

\* the transport delivers the request last sent to the ContextMiddleware of
\* the next service, which has the same context.headerNames
Deliver ==
    /\ sent.called
    /\ \E res \in Responses :
          arrival' = [req |-> sent.headers, res |-> res, origin |-> sent.resolved]
    /\ lastWarn' = ""
    /\ UNCHANGED <<scopes, stack, running, expect, config, uuidCount, inbound,
                   cronVars, httpVars, otherVars>>

\* one hop: a caller forwards a bag with the Outbound Propagator, the Inbound
\* Boundary Processor of the receiver extracts it
InitHop ==
    \E headerNames \in HopConfigs :
        InitWith(headerNames, [req |-> NoConfig, res |-> "header"], WireOk)

NextHop ==
    \/ \E t \in Tasks : Resume(t) \/ Suspend(t)
    \/ \E t \in Callers :
          \/ \E b \in HopBags : GetHttpClient(t, b, "true")
          \/ Send(t)
    \/ Deliver
    \/ \E t \in Receivers : Use(t) \/ Return(t)

SpecHop == InitHop /\ [][NextHop]_vars

\* the table gives different fields different header names
DistinctHeaderNames(table) ==
    \A k1, k2 \in DOMAIN table : table[k1] = table[k2] => k1 = k2

\* ------------------------------------------------------- history operators
\* the bag task t itself last put in its innermost open scope ({} outside any scope)
ExpectedBag(t) ==
    IF expect[t] = << >> THEN EmptyBag ELSE Top(expect[t]).contextInfo

\* the value task t itself last wrote under dataName in its innermost open scope
ExpectedData(t, dataName) ==
    IF expect[t] = << >> THEN << >>
    ELSE IF dataName \in DOMAIN Top(expect[t]).contextStorage
         THEN << Top(expect[t]).contextStorage[dataName] >>
         ELSE << >>

\* the bag that is ambient for t outside its innermost open scope
EnclosingBag(t) ==
    IF Len(expect[t]) <= 1 THEN EmptyBag ELSE expect[t][Len(expect[t]) - 1].contextInfo

\* ------------------------------------------------------------------ claims

\* C1: with several runWithContext scopes active at once on the one worker and
\* tasks interleaved at suspension points, the task that holds the worker reads
\* (getContext, getContextStorageData) exactly what it itself put in the scope
\* it is in, and every open scope's record holds exactly what its own task put
\* there: no task reads or writes the scope of another task.
C1_ScopeIsolation ==
    /\ \A t \in Tasks : running = t =>
          /\ getContext(t) = ExpectedBag(t)
          /\ \A k \in StorageKeys : getContextStorageData(t, k) = ExpectedData(t, k)
    /\ \A t \in Tasks :
          /\ Len(stack[t]) = Len(expect[t])
          /\ \A i \in 1..Len(stack[t]) :
                stack[t][i] \in DOMAIN scopes /\ scopes[stack[t][i]] = expect[t][i]

\* two tasks are inside scopes with different bags and different storage, one
\* of them suspended, the other holding the worker
C1_Witness ==
    /\ running = "t1"
    /\ stack["t1"] # << >> /\ stack["t2"] # << >>
    /\ getContext("t1") # getContext("t2")
    /\ getContextStorageData("t1", "k1") # << >>
    /\ getContextStorageData("t2", "k1") # << >>
    /\ getContextStorageData("t1", "k1") # getContextStorageData("t2", "k1")

\* C2: right after runWithContext(b, fn) starts fn, getContext() is b; it stays
\* what it is over every step in which the task neither opens, leaves nor
\* updates a scope; and when fn is over getContext() is again the bag of the
\* enclosing scope, or {} when there is none, at any depth of nesting.
C2_NestedShadowing ==
    [][\A t \in Tasks :
         /\ (Len(expect'[t]) = Len(expect[t]) + 1)
               => getContext(t)' = Top(expect'[t]).contextInfo
         /\ (expect'[t] = expect[t]) => getContext(t)' = getContext(t)
         /\ (Len(expect'[t]) = Len(expect[t]) - 1)
               => getContext(t)' = EnclosingBag(t)
      ]_vars

\* a task is in a scope nested inside a scope that has another bag
C2_Witness ==
    \E t \in Tasks :
        /\ Len(stack[t]) = MaxDepth
        /\ scopes[stack[t][1]].contextInfo # getContext(t)
        /\ getContext(t) = ExpectedBag(t)

\* C3: a task that is in no scope (it opened none, or has left every scope it
\* opened) gets {} from getContext(), not an error, whatever the other tasks do.
C3_NoScopeEmptyBag ==
    \A t \in Tasks : expect[t] = << >> => getContext(t) = EmptyBag

\* the task holding the worker is in no scope while another task's scope is open
C3_Witness ==
    /\ running = "t1"
    /\ expect["t1"] = << >>
    /\ stack["t2"] # << >>
    /\ getContext("t1") = EmptyBag

\* C18: updateContextInfo and updateContextStorageData called by a task that
\* is in no scope give a warning and change nothing: no scope is created, and
\* getContext() and getContextStorageData() of every task stay what they were.
C18_UpdateOutsideScopeIsNoOp ==
    [][\A t \in Tasks :
         /\ ( /\ expect[t] = << >>
              /\ \E b \in BagSet : UpdateContextInfo(t, b) )
               => /\ lastWarn' = "ContextInfo is not available"
                  /\ scopes' = scopes /\ stack' = stack
                  /\ \A u \in Tasks :
                        /\ getContext(u)' = getContext(u)
                        /\ \A k \in StorageKeys :
                              getContextStorageData(u, k)' = getContextStorageData(u, k)
         /\ ( /\ expect[t] = << >>
              /\ \E k \in StorageKeys, v \in StorageVals : UpdateContextStorageData(t, k, v) )
               => /\ lastWarn' = "ContextStorage is not available"
                  /\ scopes' = scopes /\ stack' = stack
                  /\ \A u \in Tasks :
                        /\ getContext(u)' = getContext(u)
                        /\ \A k \in StorageKeys :
                              getContextStorageData(u, k)' = getContextStorageData(u, k)
      ]_vars

\* a task in no scope has just called an update, while the other task is
\* suspended inside a scope with storage
C18_Witness ==
    /\ lastWarn \in {"ContextInfo is not available", "ContextStorage is not available"}
    /\ running = "t1"
    /\ expect["t1"] = << >> /\ stack["t1"] = << >>
    /\ stack["t2"] # << >>
    /\ getContextStorageData("t2", "k1") # << >>

\* C25: updateContextInfo(b2) by a task inside a scope makes getContext() of
\* that task b2, leaves the storage of that scope and the record of every
\* other scope as they were and opens or closes no scope; until the task next
\* updates, opens or leaves a scope getContext() stays b2; and when a nested
\* scope is left, getContext() is the enclosing scope's own bag, whatever the
\* nested scope's bag was replaced with.
C25_UpdateReplacesCurrentBagOnly ==
    [][\A t \in Tasks :
         /\ \A b2 \in BagSet :
               (expect[t] # << >> /\ UpdateContextInfo(t, b2)) =>
                   /\ getContext(t)' = b2
                   /\ stack' = stack /\ DOMAIN scopes' = DOMAIN scopes
                   /\ scopes'[getStore(t)].contextStorage = scopes[getStore(t)].contextStorage
                   /\ \A s \in DOMAIN scopes \ {getStore(t)} : scopes'[s] = scopes[s]
         /\ (expect'[t] = expect[t]) => getContext(t)' = getContext(t)
         /\ (Len(expect[t]) >= 2 /\ Return(t)) =>
               getContext(t)' = expect[t][Len(expect[t]) - 1].contextInfo
      ]_vars

\* a task replaced the bag of its nested scope, which has storage, while its
\* enclosing scope and the other task's scope keep their bags
C25_Witness ==
    \E t \in Tasks, u \in Tasks :
        /\ t # u /\ running = t
        /\ Len(stack[t]) = MaxDepth
        /\ stack[u] # << >>
        /\ getContextStorageData(t, "k1") # << >>
        /\ getContext(t) = BagB
        /\ scopes[stack[t][1]].contextInfo = BagA
        /\ getContext(u) = BagA

\* the value the task itself last wrote under dataName in the scope that
\* encloses its innermost one
EnclosingData(t, dataName) ==
    IF Len(expect[t]) <= 1 THEN << >>
    ELSE IF dataName \in DOMAIN expect[t][Len(expect[t]) - 1].contextStorage
         THEN << expect[t][Len(expect[t]) - 1].contextStorage[dataName] >>
         ELSE << >>

\* C26: the storage of a scope is empty when runWithContext opens it, also
\* inside a scope that has keys; a write sets its key to the written value in
\* the innermost scope of the writer and changes no other scope; when a scope
\* is left the task reads what it last wrote in the enclosing scope, and no
\* key written in the scope it left; in every state every open scope holds
\* exactly the keys written in it with their last values.
C26_StorageIsPerScope ==
    [][\A t \in Tasks :
         /\ (Len(expect'[t]) = Len(expect[t]) + 1) =>
               /\ scopes'[getStore(t)'].contextStorage = EmptyStorage
               /\ \A k \in StorageKeys : getContextStorageData(t, k)' = << >>
         /\ \A k \in StorageKeys, v \in StorageVals :
               (expect[t] # << >> /\ UpdateContextStorageData(t, k, v)) =>
                   /\ getContextStorageData(t, k)' = <<v>>
                   /\ \A s \in DOMAIN scopes \ {getStore(t)} : scopes'[s] = scopes[s]
                   /\ scopes'[getStore(t)].contextInfo = scopes[getStore(t)].contextInfo
         /\ (Len(expect'[t]) = Len(expect[t]) - 1) =>
               \A k \in StorageKeys : getContextStorageData(t, k)' = EnclosingData(t, k)
         /\ \A i \in 1..Len(stack'[t]) :
               scopes'[stack'[t][i]].contextStorage = expect'[t][i].contextStorage
      ]_vars

\* a task is in a nested scope without the key that its enclosing scope has
C26_Witness ==
    \E t \in Tasks :
        /\ running = t
        /\ Len(stack[t]) = MaxDepth
        /\ "k1" \in DOMAIN scopes[stack[t][1]].contextStorage
        /\ getContextStorageData(t, "k1") = << >>

\* ------------------------------------------------------ claims: logging
\* the metadata key of the naming convention for each field name
MetadataKey ==
    [tenantId |-> "contextTenantId", transactionId |-> "contextTransactionId",
     userId |-> "contextUserId", projectId |-> "contextProjectId",
     sessionId |-> "contextSessionId",
     internalTransactionId |-> "contextInternalTransactionId",
     other |-> "contextOther", customProperty |-> "contextCustomProperty"]

\* C22: the metadata of a log emission has, for each field of the ambient bag
\* whose value is neither undefined nor null, the entry named by the convention
\* with the field's value, and nothing else; outside any scope it is empty; the
\* mixin does not raise.
C22_MixinFlattensDefinedFields ==
    emitted.called =>
        LET bag == emitted.ambient
            defined == { key \in DOMAIN bag : bag[key] \notin {UndefinedValue, NullValue} }
        IN  /\ ~emitted.raised
            /\ DOMAIN emitted.metadata = { MetadataKey[key] : key \in defined }
            /\ \A key \in defined : emitted.metadata[MetadataKey[key]] = bag[key]
            /\ ~emitted.inScope => DOMAIN emitted.metadata = {}

\* a log line was emitted inside a scope whose bag has a field set to
\* undefined, one set to null and one set to ''
C22_Witness ==
    /\ emitted.called /\ emitted.inScope
    /\ emitted.ambient = BagNulls
    /\ emitted.metadata["contextTenantId"] = "tenantN"
    /\ emitted.metadata["contextSessionId"] = ""
    /\ "contextProjectId" \notin DOMAIN emitted.metadata
    /\ "contextUserId" \notin DOMAIN emitted.metadata

\* --------------------------------------------- claims: inbound processor
\* the header h is on the request hs with a non-empty value
NonEmptyHeader(hs, h) == h \in DOMAIN hs /\ hs[h] # ""

\* C7 (as claimed): whatever the header table, the bag of an inbound request
\* has as internalTransactionId the identifier generated for this request,
\* never a value of one of the request's headers.
C7_InternalIdNeverFromHeader ==
    inbound.called =>
        /\ inbound.contextInfo["internalTransactionId"] = inbound.internalTransactionId
        /\ inbound.contextInfo["internalTransactionId"] \in inbound.generated
        /\ \A h \in DOMAIN inbound.req :
              inbound.contextInfo["internalTransactionId"] # inbound.req[h]

C10_FieldsCopiedWhenPresent ==
    inbound.called =>
        LET bag == inbound.contextInfo IN
        /\ \A field \in DOMAIN MiddlewareTable \
                        {"transactionId", "sessionId", "internalTransactionId"} :
              LET h == MiddlewareTable[field] IN
              /\ h \in DOMAIN inbound.req =>
                    field \in DOMAIN bag /\ bag[field] = inbound.req[h]
              /\ h \notin DOMAIN inbound.req => field \notin DOMAIN bag
        /\ DOMAIN bag \subseteq
              {"transactionId", "sessionId", "internalTransactionId"} \cup DOMAIN MiddlewareTable

\* C10 (amended): for every entry (field, header) of the table other than
\* transactionId and sessionId, the bag has the field equal to the header's
\* value in req.headers (as use() leaves them) when that value is non-empty;
\* when the header is absent or empty the bag has no such field, except
\* internalTransactionId, which is then the generated identifier; the bag has
\* no field besides the three identifiers and the table's fields.
C10_FieldsCopiedWhenNonEmpty ==
    inbound.called =>
        LET bag == inbound.contextInfo IN
        /\ \A field \in DOMAIN MiddlewareTable \ {"transactionId", "sessionId"} :
              LET h == MiddlewareTable[field] IN
              /\ NonEmptyHeader(inbound.headers, h) =>
                    field \in DOMAIN bag /\ bag[field] = inbound.headers[h]
              /\ ~NonEmptyHeader(inbound.headers, h) =>
                    IF field = "internalTransactionId"
                    THEN bag[field] = inbound.internalTransactionId
                    ELSE field \notin DOMAIN bag
        /\ DOMAIN bag \subseteq
              {"transactionId", "sessionId", "internalTransactionId"} \cup DOMAIN MiddlewareTable

\* a request with a non-empty extension header and an empty tenant header has
\* been processed: the extension field is copied, tenantId is not set
C10_Witness ==
    /\ inbound.called
    /\ "other" \in DOMAIN MiddlewareTable
    /\ NonEmptyHeader(inbound.req, MiddlewareTable["other"])
    /\ inbound.contextInfo["other"] = inbound.req[MiddlewareTable["other"]]
    /\ MiddlewareTable["tenantId"] \in DOMAIN inbound.req
    /\ inbound.req[MiddlewareTable["tenantId"]] = ""
    /\ "tenantId" \notin DOMAIN inbound.contextInfo

\* C11: when writing the response headers raises, or the response object has
\* no header function, use() does not raise, next() is called exactly once,
\* inside a newly opened scope, and getContext() there is a bag whose
\* transactionId and sessionId are the resolved ones.
C11_HeaderWriteFailureIsCaught ==
    (inbound.called /\ inbound.res \in {"headerRaises", "noHeaderFunction"}) =>
        /\ ~inbound.raised
        /\ inbound.nextCalls = 1
        /\ inbound.nextStore # NoStore
        /\ {"transactionId", "sessionId"} \subseteq DOMAIN inbound.seen
        /\ inbound.seen["transactionId"] = inbound.transactionId
        /\ inbound.seen["sessionId"] = inbound.sessionId
        /\ inbound.transactionId # "" /\ inbound.sessionId # ""

\* use() has run with a response whose header function raises, for a request
\* without session-id header: next() runs in a scope with the generated ids
C11_Witness ==
    /\ inbound.called
    /\ inbound.res = "headerRaises"
    /\ inbound.logged
    /\ MiddlewareTable["sessionId"] \notin DOMAIN inbound.req
    /\ inbound.nextCalls = 1
    /\ inbound.seen["sessionId"] \in inbound.generated

\* C29: an error raised inside the callback of runWithContext reaches the
\* caller of runWithContext as the value that was raised, and getContext() in
\* the caller's handler returns the bag of the enclosing scope (the empty bag
\* when there is none), which is also what the task reads from then on; the
\* scopes of the other task are not touched.
C29_ErrorPropagatesScopeReverts ==
    [][\A t \in Tasks, e \in Errors :
         Throw(t, e) =>
             /\ caught'.error = e
             /\ caught'.failed = ExpectedBag(t)
             /\ caught'.seen = EnclosingBag(t)
             /\ getContext(t)' = EnclosingBag(t)
             /\ Len(stack'[t]) = Len(stack[t]) - 1
             /\ \A u \in Tasks \ {t} : stack'[u] = stack[u]
             /\ \A s \in DOMAIN scopes' : scopes'[s] = scopes[s]
      ]_vars

\* a callback failed in a nested scope whose bag is not the enclosing one's,
\* while the other task has a scope open
C29_Witness ==
    /\ caught.called
    /\ caught.failed = BagB
    /\ caught.seen = BagA
    /\ caught.error = "e2"
    /\ \E u \in Tasks \ {caught.task} : stack[u] # << >>

\* C30: every firing of a scheduled callback opens a scope of its own whose
\* bag is the one schedule() captured and whose storage is empty, whatever
\* scope is ambient when it fires and whatever earlier firings wrote into
\* their scopes; the captured bag of a job never changes, and the scope that
\* was ambient at firing time keeps its bag and its storage.
C30_EveryFiringStartsFromCapturedBag ==
    [][/\ \A j \in 1..Len(jobs) : jobs'[j] = jobs[j]
       /\ \A t \in Tasks, j \in 1..MaxJobs :
            Fire(t, j) =>
                /\ NewId(t) \notin DOMAIN scopes
                /\ getStore(t)' = NewId(t)
                /\ Len(stack'[t]) = Len(stack[t]) + 1
                /\ fired'.seen = jobs[j].contextInfo
                /\ getContext(t)' = jobs[j].contextInfo
                /\ \A k \in StorageKeys :
                      /\ fired'.storage[k] = << >>
                      /\ getContextStorageData(t, k)' = << >>
                /\ \A s \in DOMAIN scopes : scopes'[s] = scopes[s]
      ]_vars

\* the second firing of a job happened where the ambient scope had another
\* bag and a stored value: the callback found the captured bag and no value
C30_Witness ==
    /\ fired.called
    /\ fired.count = MaxFirings
    /\ fired.ambient = BagB
    /\ fired.ambientStorage["k1"] = <<"v1">>
    /\ fired.seen = BagA
    /\ jobs[fired.job].contextInfo = BagA
    /\ fired.storage["k1"] = << >>

\* C27 (as claimed): after use() the request's headers hold, under the
\* table's header names, the resolved transactionId and sessionId, which are
\* the values in the bag of the scope use() opened, for every request and
\* every response object.
C27_RequestHeadersHoldResolvedIds ==
    inbound.called =>
        LET tHeader == MiddlewareTable["transactionId"]
            sHeader == MiddlewareTable["sessionId"]
        IN  /\ tHeader \in DOMAIN inbound.headers
            /\ inbound.headers[tHeader] = inbound.transactionId
            /\ inbound.seen["transactionId"] = inbound.transactionId
            /\ sHeader \in DOMAIN inbound.headers
            /\ inbound.headers[sHeader] = inbound.sessionId
            /\ inbound.seen["sessionId"] = inbound.sessionId

\* --------------------------------------------------- claims: all scopes
\* C4 (as claimed): every open scope's bag has transactionId and tenantId.
C4_RequiredFieldsPresent ==
    \A s \in DOMAIN scopes :
        {"transactionId", "tenantId"} \subseteq DOMAIN scopes[s].contextInfo

\* ------------------------------------------- claims: outbound propagator
\* C5 (as claimed): a call made through a client in enabled mode that was given
\* no explicit bag carries the headers of the bag that is ambient when the call
\* is made.
C5_AmbientBagAtSendTime ==
    (sent.called /\ sent.interServiceCommunication /\ ~sent.explicit) =>
        sent.headers = requestInterceptor(HttpTable, sent.ambient)

\* C12 (as claimed): in enabled mode, for every entry (field, header) of the
\* table, the request carries the header with the field's value when the
\* resolved bag has the field, and does not carry the header when it has not.
C12_PresentFieldsInjected ==
    (sent.called /\ sent.interServiceCommunication) =>
        \A key \in DOMAIN HttpTable :
            /\ key \in DOMAIN sent.resolved =>
                  /\ HttpTable[key] \in DOMAIN sent.headers
                  /\ sent.headers[HttpTable[key]] = sent.resolved[key]
            /\ key \notin DOMAIN sent.resolved => HttpTable[key] \notin DOMAIN sent.headers

\* C12 (amended): in enabled mode with a table that gives different fields
\* different header names, for every entry (field, header) of the table the
\* request carries the header with the field's value when the resolved bag
\* has the field with a non-empty value, and does not carry the header when
\* the field is absent or empty; no header has an empty value and the
\* interceptor sets no header that is not in the table.
C12_NonEmptyFieldsInjected ==
    (sent.called /\ sent.interServiceCommunication /\ DistinctHeaderNames(HttpTable)) =>
        /\ \A key \in DOMAIN HttpTable :
              /\ Truthy(sent.resolved, key) =>
                    /\ HttpTable[key] \in DOMAIN sent.headers
                    /\ sent.headers[HttpTable[key]] = sent.resolved[key]
              /\ ~Truthy(sent.resolved, key) => HttpTable[key] \notin DOMAIN sent.headers
        /\ \A h \in DOMAIN sent.headers :
              h \in { HttpTable[key] : key \in DOMAIN HttpTable } /\ sent.headers[h] # ""

\* a request went out for a bag that has tenantId and transactionId, an empty
\* userId and no projectId: two headers sent, the other two not
C12_Witness ==
    /\ sent.called /\ sent.interServiceCommunication
    /\ sent.resolved = BagEmptyUser
    /\ sent.headers[HttpTable["tenantId"]] = "2"
    /\ sent.headers[HttpTable["transactionId"]] = "123456"
    /\ HttpTable["userId"] \notin DOMAIN sent.headers
    /\ HttpTable["projectId"] \notin DOMAIN sent.headers

\* C13: in enabled mode with an explicit bag, every context header of a
\* request has the value of a non-empty field of the explicit bag, and a table
\* field the explicit bag lacks gives no header, whatever the ambient bag
\* holds when the client is obtained and when the request is sent.
C13_ExplicitBagOnly ==
    (sent.called /\ sent.interServiceCommunication /\ sent.explicit) =>
        /\ \A h \in DOMAIN sent.headers :
              \E key \in DOMAIN HttpTable :
                  /\ HttpTable[key] = h
                  /\ Truthy(sent.contextInfo, key)
                  /\ sent.headers[h] = sent.contextInfo[key]
        /\ \A key \in DOMAIN HttpTable :
              ~Truthy(sent.contextInfo, key) => HttpTable[key] \notin DOMAIN sent.headers

\* a request went out, inside a scope whose bag has tenantId, through a client
\* that was given { transactionId: 'x' }: it carries no tenant header
C13_Witness ==
    /\ sent.called /\ sent.interServiceCommunication /\ sent.explicit
    /\ sent.contextInfo = BagX
    /\ "tenantId" \in DOMAIN sent.ambient
    /\ sent.headers[HttpTable["transactionId"]] = "x"
    /\ HttpTable["tenantId"] \notin DOMAIN sent.headers

\* C14: a request through a client obtained with interServiceCommunication
\* false carries no context header, and neither getHttpClient nor the request
\* called getContext(), whatever the ambient and the explicit bag; a client
\* obtained without the option is in enabled mode.
C14_DisabledModeNoHeaders ==
    /\ (sent.called /\ sent.option = "false") =>
          /\ ~sent.interServiceCommunication
          /\ DOMAIN sent.headers = {}
          /\ sent.storeReads = 0
    /\ (sent.called /\ sent.option = "omitted") => sent.interServiceCommunication
    /\ (client.created /\ client.option = "false") => client.storeReads = 0

\* a request went out in disabled mode, inside a scope with a bag, through a
\* client that was also given an explicit bag
C14_Witness ==
    /\ sent.called /\ sent.option = "false"
    /\ sent.contextInfo = BagTest
    /\ "tenantId" \in DOMAIN sent.ambient
    /\ DOMAIN sent.headers = {}

\* C15 (as claimed): the bag the receiver extracts from a forwarded request
\* equals the forwarded bag on every field that has a table entry and is
\* present in the forwarded bag.
C15_HopRoundTrip ==
    (inbound.called /\ "origin" \in DOMAIN inbound.arrival) =>
        \A key \in DOMAIN HttpTable \cap DOMAIN inbound.arrival.origin :
            /\ key \in DOMAIN inbound.contextInfo
            /\ inbound.contextInfo[key] = inbound.arrival.origin[key]

\* C15 (amended): when the table gives different fields different header
\* names, the bag the receiver extracts from a forwarded request equals the
\* forwarded bag on every field that has a table entry and has a non-empty
\* value in the forwarded bag.
C15_HopRoundTripNonEmpty ==
    (inbound.called /\ "origin" \in DOMAIN inbound.arrival /\ DistinctHeaderNames(HttpTable)) =>
        \A key \in DOMAIN HttpTable :
            Truthy(inbound.arrival.origin, key) =>
                /\ key \in DOMAIN inbound.contextInfo
                /\ inbound.contextInfo[key] = inbound.arrival.origin[key]

\* a bag with an extension field has made the hop under a configuration that
\* renames nothing but adds the extension field's header
C15_Witness ==
    /\ inbound.called /\ "origin" \in DOMAIN inbound.arrival
    /\ inbound.arrival.origin = BagOther
    /\ "other" \in DOMAIN HttpTable
    /\ inbound.contextInfo["other"] = "otherO"
    /\ inbound.contextInfo["sessionId"] = "sessO"
    /\ inbound.contextInfo["transactionId"] = "transO"

\* C16 (as claimed): whatever the header table, no header of an outgoing
\* request has the value of the internalTransactionId of the bag the client
\* resolved.
C16_InternalIdNeverForwarded ==
    (sent.called /\ Truthy(sent.resolved, "internalTransactionId")) =>
        \A h \in DOMAIN sent.headers :
            sent.headers[h] # sent.resolved["internalTransactionId"]

\* C17: a call that succeeds resolves with the response it got, and a call
\* that fails is rejected, in either mode, for every URL and every kind of
\* failure.
C17_OutcomeKept ==
    sent.called =>
        /\ wire.outcome.ok =>
              /\ sent.settled = "resolved"
              /\ sent.delivered = [kind |-> "response", status |-> <<wire.outcome.status>>]
        /\ ~wire.outcome.ok =>
              /\ sent.settled = "rejected"
              /\ sent.delivered.kind # "response"

\* a call in enabled mode got a 500 response and was rejected with the
\* sanitized error
C17_Witness ==
    /\ sent.called /\ sent.interServiceCommunication
    /\ ~wire.outcome.ok /\ wire.outcome.status = 500
    /\ sent.settled = "rejected"
    /\ sent.delivered.kind = "sanitizedError"

\* C19: each of the two header tables has, for every key of the configuration,
\* the configured header name, for every other key of its default table the
\* default header name, and no other key; without configuration it is the
\* default table.
C19_TableIsDefaultsOverlaid ==
    /\ \A key \in DOMAIN config :
          MiddlewareTable[key] = config[key] /\ HttpTable[key] = config[key]
    /\ \A key \in DOMAIN MiddlewareDefaultHeaderNames \ DOMAIN config :
          MiddlewareTable[key] = MiddlewareDefaultHeaderNames[key]
    /\ \A key \in DOMAIN DEFAULT_HEADER_NAMES \ DOMAIN config :
          HttpTable[key] = DEFAULT_HEADER_NAMES[key]
    /\ DOMAIN MiddlewareTable = DOMAIN MiddlewareDefaultHeaderNames \cup DOMAIN config
    /\ DOMAIN HttpTable = DOMAIN DEFAULT_HEADER_NAMES \cup DOMAIN config
    /\ config = NoConfig =>
          /\ MiddlewareTable = MiddlewareDefaultHeaderNames
          /\ HttpTable = DEFAULT_HEADER_NAMES

\* under the README's configuration a bag has made the hop: its transactionId
\* travelled in x-trace-id, its tenantId in the default header, its
\* customProperty in x-custom-header
C19_Witness ==
    /\ config = ConfigReadme
    /\ inbound.called /\ "origin" \in DOMAIN inbound.arrival
    /\ inbound.req["x-trace-id"] = "transO"
    /\ inbound.req["x-tenant-id"] = "tenantO"
    /\ inbound.req["x-custom-header"] = "customO"
    /\ inbound.contextInfo["transactionId"] = "transO"
    /\ inbound.contextInfo["customProperty"] = "customO"

\* C20: for every configuration the table of the ContextMiddleware and the
\* table of the HttpClientService are equal, and every context header a client
\* sets is read by the receiving middleware into the field it was set from.
C20_TablesAgree ==
    /\ MiddlewareTable = HttpTable
    /\ (inbound.called /\ "origin" \in DOMAIN inbound.arrival) =>
          \A key \in DOMAIN HttpTable :
              HttpTable[key] \in DOMAIN inbound.arrival.req =>
                  /\ key \in DOMAIN inbound.contextInfo
                  /\ inbound.contextInfo[key] = inbound.arrival.req[HttpTable[key]]

\* under a configuration that adds a header for internalTransactionId, a bag
\* that has the field has made the hop
C20_Witness ==
    /\ config = ConfigInternal
    /\ inbound.called /\ "origin" \in DOMAIN inbound.arrival
    /\ inbound.arrival.origin = BagTest
    /\ inbound.req["x-internal-transaction-id"] = "internal"
    /\ inbound.contextInfo["internalTransactionId"] = "internal"

\* the six standard fields of a bag
StandardFields ==
    {"userId", "tenantId", "projectId", "transactionId", "internalTransactionId", "sessionId"}

\* C21 (as claimed): without configuration each of the two tables has an entry
\* for each of the six standard fields.
C21_SixDefaultEntries ==
    config = NoConfig =>
        /\ StandardFields \subseteq DOMAIN MiddlewareTable
        /\ StandardFields \subseteq DOMAIN HttpTable

\* C21 (amended): without configuration each of the two tables has an entry
\* for exactly the five fields userId, tenantId, projectId, transactionId and
\* sessionId, and none for internalTransactionId: a forwarded bag's
\* internalTransactionId is in no header, and the receiver generates its own.
C21_FiveDefaultEntries ==
    config = NoConfig =>
        /\ DOMAIN MiddlewareTable = StandardFields \ {"internalTransactionId"}
        /\ DOMAIN HttpTable = StandardFields \ {"internalTransactionId"}
        /\ \A key \in DOMAIN HttpTable : HttpTable[key] # ""
        /\ (sent.called /\ Truthy(sent.resolved, "internalTransactionId")) =>
              \A h \in DOMAIN sent.headers :
                  sent.headers[h] # sent.resolved["internalTransactionId"]
        /\ (inbound.called /\ "origin" \in DOMAIN inbound.arrival) =>
              inbound.contextInfo["internalTransactionId"] \in inbound.generated

\* without configuration a bag that has internalTransactionId has made the hop
C21_Witness ==
    /\ config = NoConfig
    /\ inbound.called /\ "origin" \in DOMAIN inbound.arrival
    /\ inbound.arrival.origin = BagTest
    /\ inbound.contextInfo["tenantId"] = "tenant"
    /\ inbound.contextInfo["internalTransactionId"] # "internal"

\* C23 (as claimed): every failed call in enabled mode is logged once: at info
\* as a domain error when the response has the domain failure code, at info as
\* a bad request when it has another 4xx status, at warn as an unknown error
\* otherwise (5xx, no response).
C23_ThreeLogClasses ==
    (sent.called /\ sent.interServiceCommunication /\ ~wire.outcome.ok) =>
        sent.log =
            << IF wire.outcome.response /\ wire.outcome.status = DOMAIN_CUSTOM_HTTP_ERROR_CODE
               THEN [level |-> "info", class |-> "domain error"]
               ELSE IF wire.outcome.response /\ wire.outcome.status \in 400..499
               THEN [level |-> "info", class |-> "bad request"]
               ELSE [level |-> "warn", class |-> "unknown error"] >>

\* C24 (as claimed): the failure delivered for a failed call that got a
\* response has a status field equal to the response's status (stated for the
\* clients whose failures handleAxiosError handles).
C24_DeliveredStatus ==
    (sent.called /\ sent.interServiceCommunication /\ ~wire.outcome.ok
        /\ wire.outcome.response) =>
        /\ "status" \in DOMAIN sent.delivered
        /\ sent.delivered.status = <<wire.outcome.status>>

\* C28 (as claimed): for every failed call handleAxiosError rejects with the
\* failure it was given or with its sanitized copy, never with another error,
\* also for a relative or missing URL and for a domain-code response without
\* body.
C28_RejectsWithTheFailure ==
    (sent.called /\ sent.interServiceCommunication /\ ~wire.outcome.ok) =>
        /\ sent.settled = "rejected"
        /\ sent.delivered.kind \in {"AxiosError", "sanitizedError"}
        /\ wire.outcome.response => sent.delivered.kind = "sanitizedError"
        /\ ~wire.outcome.response => sent.delivered = AxiosError(wire)

\* C8 (as claimed): a failed call delivers to the caller the failure of the
\* call, with '<REDACTED>' in the place of the request body, in either mode and
\* with or without a response.
C8_FailureDeliveredRedacted ==
    (sent.called /\ ~wire.outcome.ok) =>
        /\ sent.delivered.kind \in {"AxiosError", "sanitizedError"}
        /\ sent.delivered.configData = <<REDACTED>>

\* ------------------------------------------------- claims: scheduled tasks
\* C6 (as claimed): every firing of a task that schedule() registered outside
\* any scope runs in a scope whose bag has tenantId, projectId and sessionId
\* 'unknown' and generated transactionId and internalTransactionId; the
\* callback never finds an absent or empty bag.
C6_PlaceholderBagWhenNoScope ==
    (fired.called /\ ~jobs[fired.job].inScope) =>
        /\ fired.seen # EmptyBag
        /\ {"tenantId", "projectId", "sessionId", "transactionId", "internalTransactionId"}
              \subseteq DOMAIN fired.seen
        /\ fired.seen["tenantId"] = "unknown"
        /\ fired.seen["projectId"] = "unknown"
        /\ fired.seen["sessionId"] = "unknown"
        /\ fired.seen["transactionId"] \in { v4(i) : i \in 1..uuidCount }
        /\ fired.seen["internalTransactionId"] \in { v4(i) : i \in 1..uuidCount }

====
